---- MODULE Spec2Model ----
(***************************************************************************)
(* Model of streamlit_app.py: the paper repository (search, normalise,     *)
(* persist per topic, look up by identifier), the chat context            *)
(* construction and the chat session log.                                  *)
(*                                                                         *)
(* Text is a sequence of fragments (TLA+ strings).  Text the program       *)
(* slices or rewrites character by character (summaries, topics) is held   *)
(* one character per fragment, so that s[:200], lower() and replace() are  *)
(* modelled on characters; literals of f-strings are single fragments.     *)
(***************************************************************************)
EXTENDS Integers, Sequences, FiniteSets, TLC

VARIABLES
    fs,            \* PAPER_DIR: directory name -> state of its papers_info.json
    papers_data,   \* st.session_state.papers_data
    chat_history,  \* st.session_state.chat_history
    anthropic,     \* assistant.anthropic is set (a client was constructed)
    op,            \* the operation that completed last
    arg,           \* its arguments
    ret,           \* what it returned
    reported,      \* the st.error messages it emitted
    context,       \* the context string the chat handler built
    stale,         \* identifiers the bucket held before the last search, not found by it
    respelled,     \* the last two operations searched two spellings of one topic
    nops,          \* operations completed so far
    nsearch        \* searches among them

vars == <<fs, papers_data, chat_history, anthropic, op, arg, ret, reported,
          context, stale, respelled, nops, nsearch>>

(*************************** bounds of the model ***************************)
NumPapers   == 4   \* papers in the arXiv index
MaxResults  == 4   \* upper end of the "Max Results" slider in the model
MaxOps      == 3   \* operations in one run
MaxSearches == 2   \* searches among them

(**************************** program constants ****************************)
SummaryBound == 200       \* paper['summary'][:200]
ContextLimit == 3         \* papers_data[:3]

None == [none |-> TRUE]   \* Python's None

(******************************* text helpers ******************************)
Digits == <<"0", "1", "2", "3", "4", "5", "6", "7", "8", "9">>
Digit(n) == Digits[(n % 10) + 1]

Min(a, b) == IF a <= b THEN a ELSE b

\* s[:n] of Python for n >= 0
Slice(s, n) == SubSeq(s, 1, Min(n, Len(s)))

RECURSIVE Concat(_)
Concat(ss) == IF ss = <<>> THEN <<>> ELSE Head(ss) \o Concat(Tail(ss))

\* sep.join(parts)
RECURSIVE Join(_, _)
Join(sep, parts) ==
    IF parts = <<>> THEN <<>>
    ELSE IF Len(parts) = 1 THEN Head(parts)
    ELSE Head(parts) \o sep \o Join(sep, Tail(parts))

\* str.lower() on one character
LowerChar(c) == IF c = "Q" THEN "q" ELSE IF c = "C" THEN "c" ELSE c

\* variant: replace(" ", "_") without lower()
NoLowerNormalizeTopic(topic) ==
    [i \in 1..Len(topic) |-> IF topic[i] = " " THEN "_" ELSE topic[i]]

\* topic.lower().replace(" ", "_")
NormalizeTopic(topic) ==
    LET lowered == [i \in 1..Len(topic) |-> LowerChar(topic[i])]
    IN  [i \in 1..Len(lowered) |-> IF lowered[i] = " " THEN "_" ELSE lowered[i]]

(************************* the search collaborator *************************)
\* Topics the user may type, one character per fragment.
Topics == { <<"q", "c">>, <<"q", " ", "c">>, <<"Q", " ", "C">> }

PaperNums == 1..NumPapers

\* Summary lengths around the truncation bound.
SummaryLen(n) ==
    CASE n % 4 = 1 -> 3
      [] n % 4 = 2 -> 0
      [] n % 4 = 3 -> SummaryBound + 1
      [] OTHER     -> 7

\* One arxiv.Result: paper n of the index, at metadata revision rev.
RawPaper(n, rev) ==
    [ short_id  |-> <<"21", "06", ".", Digit(n), "v1">>,
      title     |-> <<"Title ", Digit(n), " rev ", Digit(rev)>>,
      authors   |-> [i \in 1..(n % 3) |-> <<"Author ", Digit(n), Digit(i)>>],
      summary   |-> [i \in 1..SummaryLen(n) |-> Digit(i + n + rev)],
      pdf_url   |-> <<"http://arxiv.org/pdf/", Digit(n)>>,
      published |-> [year |-> 2020 + rev, month |-> n, day |-> 7 * rev, hour |-> 17],
      categories |-> [i \in 1..((n % 2) + 1) |-> <<"cs.", Digit(i)>>],
      primary_category |-> <<"cs.", Digit(1)>> ]

\* The states of the arXiv index a search may see.
Snapshots == {1, 2}

\* The relevance ranking of index state s: the papers in ascending or in
\* descending order, each at metadata revision s.
Ranking(s) ==
    [i \in 1..NumPapers |-> RawPaper(IF s % 2 = 1 THEN i ELSE NumPapers + 1 - i, s)]

\* How many hits a query may have: none, two, or as many as are asked for.
HitCounts(max_results) ==
    { k \in {0, 2, max_results} : k <= Min(max_results, NumPapers) }

\* client.results(search): the first k hits of a ranking, k <= max_results;
\* the hits of one search are distinct papers.
Results(max_results) ==
    { SubSeq(Ranking(s), 1, k) : s \in Snapshots, k \in HitCounts(max_results) }

\* values of the "Max Results" slider (1..20 in the program)
SliderValues == {1, MaxResults}

(**************************** record normaliser ****************************)
Pad2(n) == <<Digit(n \div 10), Digit(n)>>
Pad4(n) == <<Digit(n \div 1000), Digit(n \div 100), Digit(n \div 10), Digit(n)>>

\* str(paper.published.date())
DateStr(d) == Pad4(d.year) \o <<"-">> \o Pad2(d.month) \o <<"-">> \o Pad2(d.day)

\* the paper_info dict built from one result
PaperInfo(paper) ==
    [ id          |-> paper.short_id,
      title       |-> paper.title,
      authors     |-> paper.authors,
      authors_str |-> Join(<<", ">>, paper.authors),
      summary     |-> paper.summary,
      pdf_url     |-> paper.pdf_url,
      published   |-> DateStr(paper.published),
      categories  |-> paper.categories,
      primary_category |-> paper.primary_category ]

\* variant: every result is appended twice
DoubledProcessPapers(papers) ==
    Concat([i \in 1..Len(papers) |-> <<PaperInfo(papers[i]), PaperInfo(papers[i])>>])

\* papers_data = [] ; for paper in papers: papers_data.append(paper_info)
ProcessPapers(papers) == [i \in 1..Len(papers) |-> PaperInfo(papers[i])]

(******************************* topic store *******************************)
NoFile  == [kind |-> "absent",  data |-> <<>>]   \* directory without papers_info.json
Corrupt == [kind |-> "corrupt", data |-> <<>>]   \* json.load raises on it
JsonFile(d) == [kind |-> "json", data |-> d]

\* variant: the summary is stored as the title
TitleFromSummaryProjection(paper) ==
    [ title     |-> paper.summary,
      authors   |-> paper.authors,
      summary   |-> paper.summary,
      pdf_url   |-> paper.pdf_url,
      published |-> paper.published ]

\* the value stored under paper['id']
Projection(paper) ==
    [ title     |-> paper.title,
      authors   |-> paper.authors,
      summary   |-> paper.summary,
      pdf_url   |-> paper.pdf_url,
      published |-> paper.published ]

\* papers_info = {} ; for paper in papers_data: papers_info[paper['id']] = {...}
RECURSIVE PapersInfo(_, _)
PapersInfo(papers, acc) ==
    IF papers = <<>> THEN acc
    ELSE LET paper == Head(papers)
             next  == [k \in (DOMAIN acc) \cup {paper.id} |->
                          IF k = paper.id THEN Projection(paper) ELSE acc[k]]
         IN  PapersInfo(Tail(papers), next)

\* variant: the new entries are merged into the file's old content
MergingWrite(old, papers_info) ==
    JsonFile([k \in (DOMAIN old.data) \cup (DOMAIN papers_info) |->
                 IF k \in DOMAIN papers_info THEN papers_info[k] ELSE old.data[k]])

\* open(file_path, "w") ; json.dump(papers_info, ...): the file's new content
WrittenFile(old, papers_info) == JsonFile(papers_info)

SaveFaults == {"none", "makedirs", "open", "dump"}

\* save_papers_to_file; fault names the call that raises, if any
save_papers_to_file(store, topic, papers, fault) ==
    LET topic_dir == NormalizeTopic(topic)
        made == IF topic_dir \in DOMAIN store THEN store
                ELSE [d \in (DOMAIN store) \cup {topic_dir} |->
                         IF d = topic_dir THEN NoFile ELSE store[d]]
        put(f) == [made EXCEPT ![topic_dir] = f]
        failed == <<"Error saving papers">>
    IN  CASE fault = "makedirs" -> [fs |-> store, errors |-> failed]
          [] fault = "open"     -> [fs |-> made, errors |-> failed]
          [] fault = "dump"     -> [fs |-> put(Corrupt), errors |-> failed]
          [] OTHER ->
               [fs |-> put(WrittenFile(made[topic_dir], PapersInfo(papers, <<>>))),
                errors |-> <<>>]

\* os.listdir(PAPER_DIR): the directories in any order
Listings(store) ==
    { l \in [1..Cardinality(DOMAIN store) -> DOMAIN store] :
        \A i, j \in DOMAIN l : l[i] = l[j] => i = j }

\* get_paper_info's loop over the listing
RECURSIVE get_paper_info(_, _, _)
get_paper_info(store, listing, paper_id) ==
    IF listing = <<>> THEN [value |-> None, errors |-> <<>>]
    ELSE LET file == store[Head(listing)]
         IN  CASE file.kind = "absent" ->
                    get_paper_info(store, Tail(listing), paper_id)
               [] file.kind = "corrupt" ->
                    [value |-> None, errors |-> <<"Error retrieving paper info">>]
               [] OTHER ->
                    IF paper_id \in DOMAIN file.data
                    THEN [value |-> file.data[paper_id], errors |-> <<>>]
                    ELSE get_paper_info(store, Tail(listing), paper_id)

(***************************** paper repository ****************************)
\* What the collaborator and the file system do during one search.
SearchOutcomes(max_results) ==
    {[kind |-> "error", papers |-> <<>>, fault |-> "none"]} \cup
    { [kind |-> "results", papers |-> r, fault |-> f] :
        r \in Results(max_results), f \in SaveFaults }

\* the outcomes for every value of the slider
OutcomesFor == [m \in SliderValues |-> SearchOutcomes(m)]

\* variant: a failed save empties the returned list
EmptyOnSaveFailure(store, topic, max_results, outcome) ==
    IF outcome.kind = "error"
    THEN [value |-> <<>>, fs |-> store, errors |-> <<"Error searching papers">>]
    ELSE LET found == ProcessPapers(outcome.papers)
             saved == save_papers_to_file(store, topic, found, outcome.fault)
         IN  [value |-> IF saved.errors = <<>> THEN found ELSE <<>>,
              fs |-> saved.fs, errors |-> saved.errors]

\* search_papers; outcome is what the collaborator and the file system do
search_papers(store, topic, max_results, outcome) ==
    IF outcome.kind = "error"
    THEN [value |-> <<>>, fs |-> store, errors |-> <<"Error searching papers">>]
    ELSE LET found == ProcessPapers(outcome.papers)
             saved == save_papers_to_file(store, topic, found, outcome.fault)
         IN  [value |-> found, fs |-> saved.fs, errors |-> saved.errors]

(********************************** chat ***********************************)
NotConfigured == <<"Anthropic API not configured. Please set ANTHROPIC_API_KEY in your .env file.">>
CallFailed    == <<"Error calling Claude: ", "exception text">>
Reply         == <<"response.content[0].text">>

\* variant: an exception of messages.create is not caught
RaisingChat(client, message, ctx, outcome) ==
    IF ~client THEN [raised |-> FALSE, value |-> NotConfigured, sent |-> None]
    ELSE LET full_message == IF ctx # <<>> THEN ctx \o <<"\n\n">> \o message ELSE message
         IN  IF outcome = "ok"
             THEN [raised |-> FALSE, value |-> Reply, sent |-> full_message]
             ELSE [raised |-> TRUE, value |-> None, sent |-> full_message]

\* chat_with_claude; outcome is what messages.create does
chat_with_claude(client, message, ctx, outcome) ==
    IF ~client THEN [raised |-> FALSE, value |-> NotConfigured, sent |-> None]
    ELSE LET full_message == IF ctx # <<>> THEN ctx \o <<"\n\n">> \o message ELSE message
         IN  IF outcome = "ok"
             THEN [raised |-> FALSE, value |-> Reply, sent |-> full_message]
             ELSE [raised |-> FALSE, value |-> CallFailed, sent |-> full_message]

\* variant: the slice is one character short
ShortTruncatedSummary(summary) == Slice(summary, SummaryBound - 1) \o <<"...">>

\* paper['summary'][:200] followed by "..."
TruncatedSummary(summary) == Slice(summary, SummaryBound) \o <<"...">>

\* the two lines the chat handler adds for one paper
ContextEntry(paper) ==
    <<"- ">> \o paper.title \o <<" by ">> \o paper.authors_str \o <<"\n">>
    \o <<"  Summary: ">> \o TruncatedSummary(paper.summary) \o <<"\n\n">>

ContextHeader == <<"Here are some recent papers I found:\n\n">>

\* variant: every paper of the result set is put into the context
UnlimitedContext(papers) ==
    IF papers = <<>> THEN <<>>
    ELSE ContextHeader \o Concat([i \in 1..Len(papers) |-> ContextEntry(papers[i])])

\* the context the chat handler builds from st.session_state.papers_data
BuildContext(papers) ==
    IF papers = <<>> THEN <<>>
    ELSE LET top == Slice(papers, ContextLimit)
         IN  ContextHeader \o Concat([i \in 1..Len(top) |-> ContextEntry(top[i])])

\* what messages.create does; it is not called without a client
ChatOutcomes(client) == IF client THEN {"ok", "exception"} ELSE {"not called"}

Prompts == { <<"What is new in these papers?">> }

Turn(role, content) == [role |-> role, content |-> content]

(******************************* UI handlers *******************************)
\* variant: the result set is assigned without the test
AlwaysAssign(old, papers) == papers

\* if papers: st.session_state.papers_data = papers
NextPapersData(old, papers) == IF papers # <<>> THEN papers ELSE old

\* the identifiers of a list of records
Ids(records) == { records[i].id : i \in DOMAIN records }

\* identifiers stored in the bucket of a topic
BucketIds(store, topic) ==
    IF NormalizeTopic(topic) \in DOMAIN store
    THEN DOMAIN store[NormalizeTopic(topic)].data ELSE {}

NoArg == [topic |-> <<>>, max_results |-> 0, outcome |-> <<>>,
          paper_id |-> <<>>, listing |-> <<>>, prompt |-> <<>>]

Init ==
    /\ fs = <<>>
    /\ papers_data = <<>>
    /\ chat_history = <<>>
    /\ anthropic \in BOOLEAN
    /\ op = "start"
    /\ arg = NoArg
    /\ ret = None
    /\ reported = <<>>
    /\ context = <<>>
    /\ stale = {}
    /\ respelled = FALSE
    /\ nops = 0
    /\ nsearch = 0

\* the search form is submitted with a non-empty topic
Search(topic, max_results, outcome) ==
    /\ nops < MaxOps
    /\ nsearch < MaxSearches
    /\ topic # <<>>
    /\ \E r \in {search_papers(fs, topic, max_results, outcome)} :
           /\ fs' = r.fs
           /\ papers_data' = NextPapersData(papers_data, r.value)
           /\ ret' = r.value
           /\ reported' = r.errors
           /\ stale' = BucketIds(fs, topic) \ Ids(r.value)
    /\ op' = "search"
    /\ arg' = [NoArg EXCEPT !.topic = topic, !.max_results = max_results,
                            !.outcome = <<outcome.kind,
                                          IF outcome.fault = "none" THEN "none" ELSE "failed",
                                          Len(outcome.papers)>>]
    /\ context' = <<>>
    /\ respelled' = /\ op = "search"
                    /\ arg.topic # topic
                    /\ NormalizeTopic(arg.topic) = NormalizeTopic(topic)
    /\ nops' = nops + 1
    /\ nsearch' = nsearch + 1
    /\ UNCHANGED <<chat_history, anthropic>>

\* assistant.get_paper_info(paper_id)
Lookup(paper_id, listing) ==
    /\ nops < MaxOps
    /\ \E r \in {get_paper_info(fs, listing, paper_id)} :
           /\ ret' = r.value
           /\ reported' = r.errors
    /\ op' = "lookup"
    /\ arg' = [NoArg EXCEPT !.paper_id = paper_id, !.listing = listing]
    /\ context' = <<>>
    /\ stale' = {}
    /\ respelled' = FALSE
    /\ nops' = nops + 1
    /\ UNCHANGED <<fs, papers_data, chat_history, anthropic, nsearch>>

\* a prompt is submitted in the chat input
Chat(prompt, outcome) ==
    /\ nops < MaxOps
    /\ \E ctx \in {BuildContext(papers_data)} :
         \E r \in {chat_with_claude(anthropic, prompt, ctx, outcome)} :
           LET asked == Append(chat_history, Turn("user", prompt))
           IN  /\ chat_history' = IF r.raised THEN asked
                                  ELSE Append(asked, Turn("assistant", r.value))
               /\ context' = ctx
               /\ ret' = r.value
    /\ op' = "chat"
    /\ arg' = [NoArg EXCEPT !.prompt = prompt, !.outcome = <<outcome>>]
    /\ reported' = <<>>
    /\ stale' = {}
    /\ respelled' = FALSE
    /\ nops' = nops + 1
    /\ UNCHANGED <<fs, papers_data, anthropic, nsearch>>

\* the "Clear Chat" button
ClearChat ==
    /\ nops < MaxOps
    /\ chat_history' = <<>>
    /\ op' = "clear"
    /\ arg' = NoArg
    /\ ret' = None
    /\ reported' = <<>>
    /\ context' = <<>>
    /\ stale' = {}
    /\ respelled' = FALSE
    /\ nops' = nops + 1
    /\ UNCHANGED <<fs, papers_data, anthropic, nsearch>>

\* identifiers looked up: the first paper of the index and an identifier the
\* index does not know
PaperIds == { RawPaper(1, 1).short_id, <<"0000.00000v1">> }

Next ==
    \/ \E t \in Topics, m \in SliderValues :
          \E o \in OutcomesFor[m] : Search(t, m, o)
    \/ \E id \in PaperIds : \E l \in Listings(fs) : Lookup(id, l)
    \/ \E p \in Prompts, o \in ChatOutcomes(anthropic) : Chat(p, o)
    \/ ClearChat

Spec == Init /\ [][Next]_vars

(***************************************************************************)
(*                      The claims of the specification                     *)
(***************************************************************************)
SearchDone   == op = "search"
GotResults   == SearchDone /\ arg.outcome[1] = "results"
SaveDone     == GotResults /\ arg.outcome[2] = "none"    \* the save completed
SaveFailed   == GotResults /\ arg.outcome[2] # "none"
SavedBucket  == fs[NormalizeTopic(arg.topic)]

\* the five persisted fields of a stored entry equal those of record r
SameFields(entry, r) ==
    /\ entry # None
    /\ entry.title = r.title
    /\ entry.authors = r.authors
    /\ entry.summary = r.summary
    /\ entry.pdf_url = r.pdf_url
    /\ entry.published = r.published

\* part occurs in text as a contiguous run of fragments
Contains(text, part) ==
    \E k \in 0..(Len(text) - Len(part)) : SubSeq(text, k + 1, k + Len(part)) = part

\* C1: overwrite semantics.  After a save of records B to topic X that
\* completed, the bucket of normalized X holds exactly the identifiers of B:
\* no identifier the bucket held before (from an earlier save A) that is not
\* in B remains.
C1_Overwrite ==
    SaveDone =>
        /\ NormalizeTopic(arg.topic) \in DOMAIN fs
        /\ SavedBucket.kind = "json"
        /\ DOMAIN SavedBucket.data = Ids(ret)
        /\ \A id \in stale : id \notin DOMAIN SavedBucket.data

\* a second completed save to a bucket that held identifiers absent from B
C1_Witness ==
    /\ SaveDone
    /\ nsearch = 2
    /\ ret # <<>>
    /\ stale # {}

\* position in the listing of the first bucket holding id (0: none holds it)
FirstHolder(store, listing, id) ==
    LET holders == { j \in DOMAIN listing :
                       /\ store[listing[j]].kind = "json"
                       /\ id \in DOMAIN store[listing[j]].data }
    IN  IF holders = {} THEN 0
        ELSE CHOOSE j \in holders : \A h \in holders : j <= h

\* position in the listing of the first unreadable bucket (0: none)
FirstCorrupt(store, listing) ==
    LET bad == { j \in DOMAIN listing : store[listing[j]].kind = "corrupt" }
    IN  IF bad = {} THEN 0 ELSE CHOOSE j \in bad : \A h \in bad : j <= h

AllReadable(store) == \A d \in DOMAIN store : store[d].kind # "corrupt"

\* C2 as claimed: after a completed save(topic, records), find_by_id(r.id)
\* returns the five fields of r for every r in records, whatever the store
\* held before and in whatever order the buckets are listed.  Evaluated in
\* stores all of whose buckets are readable.
C2_RoundTripAnyStore ==
    (SaveDone /\ AllReadable(fs)) =>
        \A l \in Listings(fs) : \A i \in DOMAIN ret :
            SameFields(get_paper_info(fs, l, ret[i].id).value, ret[i])

\* C2 amended: after a completed save the topic's own bucket maps every
\* r.id to the five fields of r; find_by_id(r.id) returns them when no
\* bucket listed before the saved one holds r.id or is unreadable; when an
\* earlier bucket holds r.id it returns that bucket's entry, and when an
\* unreadable bucket comes before every holder it returns not-found.
C2_RoundTrip ==
    SaveDone =>
        \A i \in DOMAIN ret :
            /\ ret[i].id \in DOMAIN SavedBucket.data
            /\ SameFields(SavedBucket.data[ret[i].id], ret[i])
            /\ \A l \in Listings(fs) :
                 LET found == get_paper_info(fs, l, ret[i].id).value
                     h == FirstHolder(fs, l, ret[i].id)
                     c == FirstCorrupt(fs, l)
                 IN  /\ h > 0
                     /\ IF c > 0 /\ c < h THEN found = None
                        ELSE found = fs[l[h]].data[ret[i].id]
                     /\ (l[h] = NormalizeTopic(arg.topic) /\ ~(c > 0 /\ c < h))
                            => SameFields(found, ret[i])

\* a completed save while another bucket holds one of the saved identifiers
\* with different fields
C2_Witness ==
    /\ SaveDone
    /\ \E i \in DOMAIN ret : \E d \in DOMAIN fs :
         /\ d # NormalizeTopic(arg.topic)
         /\ fs[d].kind = "json"
         /\ ret[i].id \in DOMAIN fs[d].data
         /\ ~SameFields(fs[d].data[ret[i].id], ret[i])

\* C3: the session log has even length and alternates user, assistant, ...
\* starting with user, whether the chat calls succeeded or failed.
C3_Alternates ==
    /\ Len(chat_history) % 2 = 0
    /\ \A i \in DOMAIN chat_history :
         chat_history[i].role = IF i % 2 = 1 THEN "user" ELSE "assistant"

\* two exchanges, one of them a failed chat call
C3_Witness ==
    /\ op = "chat"
    /\ Len(chat_history) = 4
    /\ \E i \in DOMAIN chat_history :
         chat_history[i].content \in {CallFailed, NotConfigured}
    /\ \E i \in DOMAIN chat_history : chat_history[i].content = Reply

\* C4 as claimed: on any failure of the search collaborator or of the save,
\* search returns the empty sequence and reports the failure.
C4_EmptyOnAnyFailure ==
    (SearchDone /\ (arg.outcome[1] = "error" \/ arg.outcome[2] # "none")) =>
        (ret = <<>> /\ reported # <<>>)

\* C4 amended: search always returns; on a failure of the search
\* collaborator it returns the empty sequence and reports the failure; on a
\* failure of the save it reports the failure and still returns every
\* normalized record; with no failure it reports nothing.
C4_FailureHandling ==
    SearchDone =>
        /\ arg.outcome[1] = "error" =>
              (ret = <<>> /\ reported = <<"Error searching papers">>)
        /\ SaveFailed =>
              (Len(ret) = arg.outcome[3] /\ reported = <<"Error saving papers">>)
        /\ SaveDone => (Len(ret) = arg.outcome[3] /\ reported = <<>>)

\* a search whose save failed after the collaborator returned records
C4_Witness == SaveFailed /\ arg.outcome[3] > 0 /\ ret # <<>>

\* C5: find_by_id returns the entry of the first listed bucket holding
\* paper_id, and not-found only when no bucket holds it, also when a bucket
\* listed before the holder is unreadable or has no data file.
C5_FirstMatch ==
    op = "lookup" =>
        LET h == FirstHolder(fs, arg.listing, arg.paper_id)
        IN  IF h = 0 THEN ret = None
            ELSE ret = fs[arg.listing[h]].data[arg.paper_id]

\* the same topic up to letter case and space/underscore
CanonChar(c) ==
    CASE c \in {"q", "Q"} -> "q"
      [] c \in {"c", "C"} -> "c"
      [] c \in {" ", "_"} -> "_"
      [] OTHER -> c
SameTopic(t, u) ==
    /\ Len(t) = Len(u)
    /\ \A i \in DOMAIN t : CanonChar(t[i]) = CanonChar(u[i])

\* C6: topics equal up to letter case and space/underscore share one
\* bucket: the store never holds two buckets for the same normalized topic,
\* and after a completed save every bucket of an equivalent topic (the one
\* bucket there is) holds exactly the identifiers just saved.
C6_OneBucketPerTopic ==
    /\ \A d1, d2 \in DOMAIN fs : SameTopic(d1, d2) => d1 = d2
    /\ SaveDone =>
         /\ \E d \in DOMAIN fs : SameTopic(d, arg.topic)
         /\ \A d \in DOMAIN fs :
              SameTopic(d, arg.topic) =>
                  (fs[d].kind = "json" /\ DOMAIN fs[d].data = Ids(ret))

\* a completed save under the capitalized topic, right after a search of
\* another spelling of it, into the one bucket of both, which held other
\* identifiers before
C6_Witness ==
    /\ SaveDone
    /\ respelled
    /\ arg.topic = <<"Q", " ", "C">>
    /\ DOMAIN fs = {<<"q", "_", "c">>}
    /\ stale # {}

\* C7: a search the collaborator answered returns at most max_results
\* records, each with a non-empty identifier, no two with the same one.
C7_BoundedDistinct ==
    GotResults =>
        /\ Len(ret) <= arg.max_results
        /\ \A i \in DOMAIN ret : ret[i].id # <<>>
        /\ \A i, j \in DOMAIN ret : ret[i].id = ret[j].id => i = j

\* a search that returned as many records as the slider allows
C7_Witness == GotResults /\ arg.max_results = MaxResults /\ Len(ret) = MaxResults

\* the records the chat handler puts into the context
Included == SubSeq(papers_data, 1, Min(ContextLimit, Len(papers_data)))

\* C8: for every record in the context, a summary longer than 200
\* characters appears as exactly its first 200 characters followed by the
\* ellipsis, and a shorter summary appears in full.
C8_Truncation ==
    op = "chat" =>
        \A i \in DOMAIN Included :
            LET summary == Included[i].summary
            IN  /\ Len(summary) > SummaryBound =>
                     Contains(context, <<"  Summary: ">>
                                       \o SubSeq(summary, 1, SummaryBound)
                                       \o <<"...">>)
                /\ Len(summary) < SummaryBound =>
                     Contains(context, <<"  Summary: ">> \o summary)

\* a context with a summary over the bound and a non-empty one under it
C8_Witness ==
    /\ op = "chat"
    /\ \E i, j \in DOMAIN Included :
         /\ Len(Included[i].summary) > SummaryBound
         /\ Len(Included[j].summary) > 0
         /\ Len(Included[j].summary) < SummaryBound

\* positions of the entries of the context
EntryStarts == { k \in DOMAIN context : context[k] = "- " }

\* C9: the context holds one entry, title then author display string then
\* summary, for each of the first min(3, n) records in order and nothing for
\* a later record; it is empty when there are no records.
C9_Selection ==
    op = "chat" =>
        /\ papers_data = <<>> => context = <<>>
        /\ Cardinality(EntryStarts) = Min(ContextLimit, Len(papers_data))
        /\ \A i \in 1..Min(ContextLimit, Len(papers_data)) :
             LET k == CHOOSE k \in EntryStarts :
                        Cardinality({e \in EntryStarts : e < k}) = i - 1
                 p == papers_data[i]
                 line == <<"- ">> \o p.title \o <<" by ">> \o p.authors_str
                         \o <<"\n", "  Summary: ">>
             IN  SubSeq(context, k, k + Len(line) - 1) = line
        /\ \A i \in DOMAIN papers_data :
             i > ContextLimit => ~Contains(context, papers_data[i].title)

\* a chat over a result set of more than three records
C9_Witness == op = "chat" /\ Len(papers_data) > ContextLimit /\ context # <<>>

\* C10: only a search that returns at least one record replaces the result
\* set; a search returning nothing leaves it as it was; a chat submission or
\* a clear changes neither the result set nor any bucket.
C10_Step ==
    /\ papers_data' # papers_data =>
          (op' = "search" /\ ret' # <<>> /\ papers_data' = ret')
    /\ (op' = "search" /\ ret' = <<>>) => papers_data' = papers_data
    /\ op' \in {"chat", "clear"} => (papers_data' = papers_data /\ fs' = fs)
C10_Frame == [][C10_Step]_vars

\* an empty search result after a search that returned records
C10_Witness == SearchDone /\ ret = <<>> /\ papers_data # <<>>

====
